---------------------------- MODULE Spec2Model ----------------------------
(***************************************************************************)
(* A model of three utilities of panel/util.py:                            *)
(*   isIn(obj, objs), indexOf(obj, objs)   -- the identity-then-equality   *)
(*                                            scans of a sequence          *)
(*   abbreviated_repr(value, max_length, natural_breaks)                   *)
(*                                                                         *)
(* Python strings are sequences of one-character strings.  Python objects  *)
(* are records: an object of the heap has an identity (id), a class (kind) *)
(* and a content (items).                                                  *)
(***************************************************************************)
EXTENDS Integers, Sequences, FiniteSets, TLC

VARIABLES fn, pc, args, i, trace, vrepr, abbrev, natural_break, k,
          max_length, end_char, ret

vars == <<fn, pc, args, i, trace, vrepr, abbrev, natural_break, k,
          max_length, end_char, ret>>

\* ---------------------------------------------------------------- bounds
\* longest sequence objs handed to isIn / indexOf
MaxSeqLen == 3
\* most elements of a container / characters of a string handed to abbreviated_repr
MaxItems == 3
\* the integers stored in the containers are 1..MaxElem
MaxElem == 2
\* max_length ranges over -MaxNeg .. MaxMaxLength
MaxMaxLength == 10
MaxNeg == 2

\* ------------------------------------------------------- Python strings
Digits == <<"0", "1", "2", "3", "4", "5", "6", "7", "8", "9">>

\* repr of a small non-negative int
ReprInt(n) == <<Digits[n + 1]>>

RECURSIVE JoinInts(_)
\* ', '.join(repr(x) for x in items)
JoinInts(items) ==
    IF items = <<>> THEN <<>>
    ELSE IF Len(items) = 1 THEN ReprInt(items[1])
    ELSE ReprInt(Head(items)) \o <<",", " ">> \o JoinInts(Tail(items))

RECURSIVE JoinDictItems(_)
\* ', '.join('%r: %r' % (key, d[key])); the dicts of the model map key to key
JoinDictItems(items) ==
    IF items = <<>> THEN <<>>
    ELSE LET one == ReprInt(Head(items)) \o <<":", " ">> \o ReprInt(Head(items))
         IN IF Len(items) = 1 THEN one
            ELSE one \o <<",", " ">> \o JoinDictItems(Tail(items))

RECURSIVE JoinPairs(_)
\* ', '.join(repr((key, d[key]))), the item list of an OrderedDict
JoinPairs(items) ==
    IF items = <<>> THEN <<>>
    ELSE LET one == <<"(">> \o ReprInt(Head(items)) \o <<",", " ">>
                            \o ReprInt(Head(items)) \o <<")">>
         IN IF Len(items) = 1 THEN one
            ELSE one \o <<",", " ">> \o JoinPairs(Tail(items))

RECURSIVE JoinSpace(_)
\* ' '.join(str(x)), the body of a numpy array's str
JoinSpace(items) ==
    IF items = <<>> THEN <<>>
    ELSE IF Len(items) = 1 THEN ReprInt(items[1])
    ELSE ReprInt(Head(items)) \o <<" ">> \o JoinSpace(Tail(items))

OrderedDictName == <<"O", "r", "d", "e", "r", "e", "d", "D", "i", "c", "t">>

\* repr(value), by the class of the value
PyRepr(v) ==
    CASE v.kind = "list"  -> <<"[">> \o JoinInts(v.items) \o <<"]">>
      [] v.kind = "tuple" -> IF Len(v.items) = 1
                             THEN <<"(">> \o ReprInt(v.items[1]) \o <<",", ")">>
                             ELSE <<"(">> \o JoinInts(v.items) \o <<")">>
      [] v.kind = "set"   -> IF v.items = <<>> THEN <<"s", "e", "t", "(", ")">>
                             ELSE <<"{">> \o JoinInts(v.items) \o <<"}">>
      [] v.kind = "dict"  -> <<"{">> \o JoinDictItems(v.items) \o <<"}">>
      [] v.kind = "OrderedDict" ->
             IF v.items = <<>> THEN OrderedDictName \o <<"(", ")">>
             ELSE OrderedDictName \o <<"(", "[">> \o JoinPairs(v.items) \o <<"]", ")">>
      [] v.kind = "str"   -> <<"'">> \o v.items \o <<"'">>
      [] v.kind = "nan"   -> <<"n", "a", "n">>
      [] v.kind = "ndarray" -> <<"[">> \o JoinSpace(v.items) \o <<"]">>
      [] OTHER            -> v.items      \* a class with its own __repr__

\* str(value): a str is itself, every other class of the model falls back on repr
PyStr(v) == IF v.kind = "str" THEN v.items ELSE PyRepr(v)

\* Python's s[a:] and s[:b] (a negative index counts from the end, and
\* indexes are clipped to the string)
ClipIndex(idx, n) ==
    IF idx < 0 THEN (IF idx + n < 0 THEN 0 ELSE idx + n)
    ELSE (IF idx > n THEN n ELSE idx)

SliceFrom(s, a) == SubSeq(s, ClipIndex(a, Len(s)) + 1, Len(s))
SliceTo(s, b) == SubSeq(s, 1, ClipIndex(b, Len(s)))

\* brk in s, for a one-character brk
Contains(s, brk) == \E p \in 1..Len(s) : s[p] = brk

\* s.index(brk): the zero-based position of its first occurrence
Index(s, brk) == (CHOOSE p \in 1..Len(s) :
                     s[p] = brk /\ \A q \in 1..(p - 1) : s[q] # brk) - 1

\* the class hierarchy isinstance consults
Bases(kind) ==
    IF kind = "OrderedDict" THEN {"OrderedDict", "dict", "object"}
    ELSE {kind, "object"}

IsInstance(v, classes) == Bases(v.kind) \cap classes # {}


\* ------------------------------------------------------ the heap of objects
\* The objects a caller may pass to isIn / indexOf: two distinct lists holding
\* equal contents, a float nan (equal to nothing, itself included), a numpy
\* array of two elements (the truth value of any == result is ambiguous and
\* raises ValueError), a tuple of two elements and a tuple of one.
ListA == [id |-> 1, kind |-> "list", items |-> <<1>>]
ListB == [id |-> 2, kind |-> "list", items |-> <<1>>]
NaN == [id |-> 3, kind |-> "nan", items |-> <<>>]
Array == [id |-> 4, kind |-> "ndarray", items |-> <<1, 2>>]
Pair == [id |-> 5, kind |-> "tuple", items |-> <<1, 2>>]
Single == [id |-> 6, kind |-> "tuple", items |-> <<1>>]

Heap == {ListA, ListB, NaN, Array, Pair, Single}

\* o is obj
Is(o, obj) == o.id = obj.id

\* what `if o == obj:` does: the branch is taken ("True"), not taken ("False"),
\* or the comparison or its truth value raises ("raise")
PyEq(o, obj) ==
    IF o.kind = "ndarray" \/ obj.kind = "ndarray" THEN "raise"
    ELSE IF o.kind = "nan" \/ obj.kind = "nan" THEN "False"
    ELSE IF o.kind = obj.kind /\ o.items = obj.items THEN "True"
    ELSE "False"

NotInListText == <<" ", "n", "o", "t", " ", "i", "n", " ", "l", "i", "s", "t">>

\* raise ValueError('%s not in list' % obj): the % operator takes a tuple on
\* its right as the argument list, so a tuple of one element is formatted as
\* that element, and a tuple of any other length raises TypeError
RaiseNotInList(obj) ==
    IF obj.kind = "tuple"
    THEN IF Len(obj.items) = 1
         THEN [exc |-> "ValueError", msg |-> ReprInt(obj.items[1]) \o NotInListText]
         ELSE [exc |-> "TypeError",
               msg |-> IF Len(obj.items) = 0
                       THEN <<"not enough arguments for format string">>
                       ELSE <<"not all arguments converted during string formatting">>]
    ELSE [exc |-> "ValueError", msg |-> PyStr(obj) \o NotInListText]

Running == [st |-> "running", val |-> <<>>]
Return(v) == [st |-> "return", val |-> v]
Raise(e) == [st |-> "raise", val |-> e]

\* the locals of abbreviated_repr, while isIn or indexOf runs
NoReprLocals ==
    /\ vrepr = <<>> /\ abbrev = <<>> /\ natural_break = <<>>
    /\ k = 0 /\ end_char = <<>>
    /\ max_length = 0

SearchArgs == [obj : Heap, objs : UNION {[1..n -> Heap] : n \in 0..MaxSeqLen}]

InitSearch ==
    /\ fn \in {"isIn", "indexOf"}
    /\ args \in SearchArgs
    /\ pc = "for"
    /\ i = 0
    /\ trace = <<>>
    /\ ret = Running
    /\ NoReprLocals

\* ---------------------------------------------------------------- isIn
\* for o in objs: the next element, or the end of the loop
isIn_for ==
    /\ fn = "isIn" /\ pc = "for"
    /\ pc' = IF i < Len(args.objs) THEN "is" ELSE "end"
    /\ UNCHANGED <<fn, args, i, trace, vrepr, abbrev, natural_break, k,
                   max_length, end_char, ret>>

\* the scan without its identity test: every element goes to the == test
isIn_is_EqualityOnly ==
    /\ fn = "isIn" /\ pc = "is"
    /\ trace' = Append(trace, <<i, "is">>)
    /\ ret' = ret /\ pc' = "try"
    /\ UNCHANGED <<fn, args, i, vrepr, abbrev, natural_break, k,
                   max_length, end_char>>

\* if o is obj: return True
isIn_is ==
    /\ fn = "isIn" /\ pc = "is"
    /\ trace' = Append(trace, <<i, "is">>)
    /\ IF Is(args.objs[i + 1], args.obj)
       THEN ret' = Return(TRUE) /\ pc' = "done"
       ELSE ret' = ret /\ pc' = "try"
    /\ UNCHANGED <<fn, args, i, vrepr, abbrev, natural_break, k,
                   max_length, end_char>>

\* the comparison without its try/except: an error of == reaches the caller
isIn_try_Propagates ==
    /\ fn = "isIn" /\ pc = "try"
    /\ LET eq == PyEq(args.objs[i + 1], args.obj)
       IN /\ trace' = Append(trace, <<i, eq>>)
          /\ IF eq = "True"
             THEN ret' = Return(TRUE) /\ pc' = "done" /\ i' = i
             ELSE IF eq = "raise"
             THEN /\ ret' = Raise([exc |-> "ValueError",
                                   msg |-> <<"The truth value of an array is ambiguous">>])
                  /\ pc' = "done" /\ i' = i
             ELSE ret' = ret /\ pc' = "for" /\ i' = i + 1
    /\ UNCHANGED <<fn, args, vrepr, abbrev, natural_break, k,
                   max_length, end_char>>

\* try: if o == obj: return True / except: pass
isIn_try ==
    /\ fn = "isIn" /\ pc = "try"
    /\ LET eq == PyEq(args.objs[i + 1], args.obj)
       IN /\ trace' = Append(trace, <<i, eq>>)
          /\ IF eq = "True"
             THEN ret' = Return(TRUE) /\ pc' = "done" /\ i' = i
             ELSE ret' = ret /\ pc' = "for" /\ i' = i + 1
    /\ UNCHANGED <<fn, args, vrepr, abbrev, natural_break, k,
                   max_length, end_char>>

\* return False
isIn_end ==
    /\ fn = "isIn" /\ pc = "end"
    /\ ret' = Return(FALSE)
    /\ pc' = "done"
    /\ UNCHANGED <<fn, args, i, trace, vrepr, abbrev, natural_break, k,
                   max_length, end_char>>

\* -------------------------------------------------------------- indexOf
\* for i, o in enumerate(objs): the next element, or the end of the loop
indexOf_for ==
    /\ fn = "indexOf" /\ pc = "for"
    /\ pc' = IF i < Len(args.objs) THEN "is" ELSE "end"
    /\ UNCHANGED <<fn, args, i, trace, vrepr, abbrev, natural_break, k,
                   max_length, end_char, ret>>

\* if o is obj: return i
indexOf_is ==
    /\ fn = "indexOf" /\ pc = "is"
    /\ trace' = Append(trace, <<i, "is">>)
    /\ IF Is(args.objs[i + 1], args.obj)
       THEN ret' = Return(i) /\ pc' = "done"
       ELSE ret' = ret /\ pc' = "try"
    /\ UNCHANGED <<fn, args, i, vrepr, abbrev, natural_break, k,
                   max_length, end_char>>

\* the position counted from one: an equal element is reported one too far
indexOf_try_FromOne ==
    /\ fn = "indexOf" /\ pc = "try"
    /\ LET eq == PyEq(args.objs[i + 1], args.obj)
       IN /\ trace' = Append(trace, <<i, eq>>)
          /\ IF eq = "True"
             THEN ret' = Return(i + 1) /\ pc' = "done" /\ i' = i
             ELSE ret' = ret /\ pc' = "for" /\ i' = i + 1
    /\ UNCHANGED <<fn, args, vrepr, abbrev, natural_break, k,
                   max_length, end_char>>

\* try: if o == obj: return i / except: pass
indexOf_try ==
    /\ fn = "indexOf" /\ pc = "try"
    /\ LET eq == PyEq(args.objs[i + 1], args.obj)
       IN /\ trace' = Append(trace, <<i, eq>>)
          /\ IF eq = "True"
             THEN ret' = Return(i) /\ pc' = "done" /\ i' = i
             ELSE ret' = ret /\ pc' = "for" /\ i' = i + 1
    /\ UNCHANGED <<fn, args, vrepr, abbrev, natural_break, k,
                   max_length, end_char>>

\* raise ValueError('%s not in list' % obj)
indexOf_end ==
    /\ fn = "indexOf" /\ pc = "end"
    /\ ret' = Raise(RaiseNotInList(args.obj))
    /\ pc' = "done"
    /\ UNCHANGED <<fn, args, i, trace, vrepr, abbrev, natural_break, k,
                   max_length, end_char>>

\* ----------------------------------------------------- abbreviated_repr
\* the values handed to abbreviated_repr: lists and tuples of small ints, sets
\* (repr lists small ints in increasing order), dicts and OrderedDicts over
\* distinct keys, strings, and objects of a class whose __repr__ returns the
\* characters held in items
Chars == {"a", ",", " "}

IntSeqs == UNION {[1..n -> 1..MaxElem] : n \in 0..MaxItems}
Increasing(s) == \A p, q \in 1..Len(s) : p < q => s[p] < s[q]
Distinct(s) == \A p, q \in 1..Len(s) : p # q => s[p] # s[q]
CharSeqs == UNION {[1..n -> Chars] : n \in 0..MaxItems}

Values ==
    [kind : {"list", "tuple"}, items : IntSeqs]
    \cup [kind : {"set"}, items : {s \in IntSeqs : Increasing(s)}]
    \cup [kind : {"dict", "OrderedDict"}, items : {s \in IntSeqs : Distinct(s)}]
    \cup [kind : {"str", "object"}, items : CharSeqs]

\* natural_breaks: the delimiters "," and " " in any order, or some of them
BreakOrders == {<<>>, <<",">>, <<" ">>, <<",", " ">>, <<" ", ",">>}

ReprArgs == [value : Values,
             max_length : (0 - MaxNeg)..MaxMaxLength,
             natural_breaks : BreakOrders]

\* natural_break = None is <<>>, natural_break = n is <<n>>
None == <<>>

\* bool(natural_break): None and 0 are false
Truthy(nb) == nb # None /\ nb[1] # 0

Ellipsis == <<".", ".", ".">>

InitRepr ==
    /\ fn = "abbreviated_repr"
    /\ args \in ReprArgs
    /\ pc = "repr"
    /\ vrepr = <<>> /\ abbrev = <<>> /\ natural_break = None
    /\ k = 0 /\ end_char = <<>>
    /\ max_length = args.max_length
    /\ i = 0 /\ trace = <<>>
    /\ ret = Running

\* vrepr = repr(value)
abbreviated_repr_repr ==
    /\ fn = "abbreviated_repr" /\ pc = "repr"
    /\ vrepr' = PyRepr(args.value)
    /\ pc' = "len"
    /\ UNCHANGED <<fn, args, i, trace, abbrev, natural_break, k,
                   max_length, end_char, ret>>

\* a slip of the comparison: a representation of exactly max_length is cut too
TooLongOrEqual(r, maxlen) == Len(r) >= maxlen

\* len(vrepr) > max_length
TooLong(r, maxlen) == Len(r) > maxlen

\* if len(vrepr) > max_length: abbrev = vrepr[max_length//2:];
\* natural_break = None ... else: return vrepr
abbreviated_repr_len ==
    /\ fn = "abbreviated_repr" /\ pc = "len"
    /\ IF TooLong(vrepr, max_length)
       THEN /\ abbrev' = SliceFrom(vrepr, max_length \div 2)
            /\ natural_break' = None
            /\ k' = 1
            /\ pc' = "scan"
            /\ ret' = ret
       ELSE /\ ret' = Return(vrepr)
            /\ pc' = "done"
            /\ UNCHANGED <<abbrev, natural_break, k>>
    /\ UNCHANGED <<fn, args, i, trace, vrepr, max_length, end_char>>

\* a position-dependent choice: the earliest occurrence of any delimiter
BreakOffsetEarliest(s, brk, maxlen) ==
    LET found == {Index(s, args.natural_breaks[n]) :
                     n \in {m \in 1..Len(args.natural_breaks) :
                               Contains(s, args.natural_breaks[m])}}
    IN (CHOOSE p \in found : \A q \in found : p <= q) + maxlen \div 2

\* the value natural_break takes when brk is found in abbrev
BreakOffset(s, brk, maxlen) == Index(s, brk) + maxlen \div 2

\* for brk in natural_breaks: if brk in abbrev: natural_break = ...; break
abbreviated_repr_scan ==
    /\ fn = "abbreviated_repr" /\ pc = "scan"
    /\ IF k > Len(args.natural_breaks)
       THEN pc' = "adjust" /\ UNCHANGED <<natural_break, k>>
       ELSE IF Contains(abbrev, args.natural_breaks[k])
            THEN /\ natural_break' =
                       <<BreakOffset(abbrev, args.natural_breaks[k], max_length)>>
                 /\ pc' = "adjust"
                 /\ k' = k
            ELSE /\ k' = k + 1
                 /\ pc' = "scan"
                 /\ natural_break' = natural_break
    /\ UNCHANGED <<fn, args, i, trace, vrepr, abbrev, max_length, end_char, ret>>

\* the adjustment without its natural_break < max_length test
AdjustedMaxLengthUnchecked(nb, maxlen) ==
    IF Truthy(nb) THEN nb[1] + 1 ELSE maxlen

\* if natural_break and natural_break < max_length: max_length = natural_break + 1
AdjustedMaxLength(nb, maxlen) ==
    IF Truthy(nb) /\ nb[1] < maxlen THEN nb[1] + 1 ELSE maxlen

abbreviated_repr_adjust ==
    /\ fn = "abbreviated_repr" /\ pc = "adjust"
    /\ max_length' = AdjustedMaxLength(natural_break, max_length)
    /\ pc' = "end_char"
    /\ UNCHANGED <<fn, args, i, trace, vrepr, abbrev, natural_break, k,
                   end_char, ret>>

\* the dict test placed before the OrderedDict test
EndCharDictFirst(value) ==
    IF IsInstance(value, {"list"}) THEN <<"]">>
    ELSE IF IsInstance(value, {"dict", "set"}) THEN <<"}">>
    ELSE IF IsInstance(value, {"OrderedDict"}) THEN <<"]", ")">>
    ELSE <<>>

\* end_char = '' / ']' for a list / '])' for an OrderedDict / '}' for a dict or set
EndChar(value) ==
    IF IsInstance(value, {"list"}) THEN <<"]">>
    ELSE IF IsInstance(value, {"OrderedDict"}) THEN <<"]", ")">>
    ELSE IF IsInstance(value, {"dict", "set"}) THEN <<"}">>
    ELSE <<>>

abbreviated_repr_end_char ==
    /\ fn = "abbreviated_repr" /\ pc = "end_char"
    /\ end_char' = EndChar(args.value)
    /\ pc' = "return"
    /\ UNCHANGED <<fn, args, i, trace, vrepr, abbrev, natural_break, k,
                   max_length, ret>>

\* the slice taken at max_length instead of max_length+1
AbbreviationAtMaxLength(r, maxlen, suffix) == SliceTo(r, maxlen) \o Ellipsis \o suffix

\* vrepr[:max_length+1] + '...' + end_char
Abbreviation(r, maxlen, suffix) == SliceTo(r, maxlen + 1) \o Ellipsis \o suffix

abbreviated_repr_return ==
    /\ fn = "abbreviated_repr" /\ pc = "return"
    /\ ret' = Return(Abbreviation(vrepr, max_length, end_char))
    /\ pc' = "done"
    /\ UNCHANGED <<fn, args, i, trace, vrepr, abbrev, natural_break, k,
                   max_length, end_char>>

\* ------------------------------------------------------- the specification
Init == InitSearch \/ InitRepr

Next ==
    \/ isIn_for \/ isIn_is \/ isIn_try \/ isIn_end
    \/ indexOf_for \/ indexOf_is \/ indexOf_try \/ indexOf_end
    \/ abbreviated_repr_repr \/ abbreviated_repr_len \/ abbreviated_repr_scan
    \/ abbreviated_repr_adjust \/ abbreviated_repr_end_char
    \/ abbreviated_repr_return

Spec == Init /\ [][Next]_vars

\* ------------------------------------------------------------ properties
\* an element matches the target: it is the target, or == holds without raising
Matches(o, obj) == Is(o, obj) \/ PyEq(o, obj) = "True"
MatchAt(p) == Matches(args.objs[p], args.obj)
AnyMatch == \E p \in 1..Len(args.objs) : MatchAt(p)

\* the tests made on the element at zero-based position j, in the order made
TestsAt(j) == SelectSeq(trace, LAMBDA e : e[1] = j)

\* C1: isIn returns True exactly when some element of the sequence is the
\* target or compares equal to it without raising, and False otherwise (the
\* empty sequence included).
C1_IsInIffSomeElementMatches ==
    (fn = "isIn" /\ pc = "done") =>
        /\ ret.st = "return"
        /\ ret.val = AnyMatch

\* an isIn call that returned True for a target that is an element of the
\* sequence although every comparison with == raises, one of them having raised
C1_Witness ==
    /\ fn = "isIn" /\ pc = "done"
    /\ ret = Return(TRUE)
    /\ \A p \in 1..Len(args.objs) : PyEq(args.objs[p], args.obj) = "raise"
    /\ \E n \in 1..Len(trace) : trace[n][2] = "raise"

C3_EqualityErrorsSuppressed ==
    fn \in {"isIn", "indexOf"} =>
        \A n \in 1..Len(trace) : trace[n][2] = "raise" =>
            LET j == trace[n][1]
            IN /\ i > j
               /\ ret.st = "raise" => (fn = "indexOf" /\ ~AnyMatch)
               /\ pc = "done" =>
                    /\ (fn = "isIn" /\ ~AnyMatch) => ret = Return(FALSE)
                    /\ (\E p \in (j + 2)..Len(args.objs) : MatchAt(p)) =>
                          /\ ret.st = "return"
                          /\ fn = "isIn" => ret.val = TRUE
                          /\ fn = "indexOf" =>
                                (ret.val > j /\ MatchAt(ret.val + 1))

\* indexOf returned the position of an element that follows one whose ==
\* raised
C3_Witness ==
    /\ fn = "indexOf" /\ pc = "done" /\ ret.st = "return"
    /\ \E n \in 1..Len(trace) : trace[n][2] = "raise" /\ ret.val > trace[n][1]

\* C4: indexOf ends in the not-found error, a ValueError carrying the
\* target's representation, exactly when no element matches, and only after
\* every element was examined; isIn never fails.
C4_NotFoundErrorExactlyWhenNoMatch ==
    /\ (fn = "indexOf" /\ ret.st = "raise") => i = Len(args.objs)
    /\ (fn = "indexOf" /\ pc = "done") =>
          IF AnyMatch THEN ret.st = "return"
          ELSE ret = Raise([exc |-> "ValueError",
                            msg |-> PyStr(args.obj) \o NotInListText])
    /\ (fn = "isIn" /\ pc = "done") => ret.st = "return"

\* C5: a representation no longer than max_length is returned whole,
\* whatever the class of the value and whatever natural_breaks.
C5_ShortReprUnchanged ==
    (fn = "abbreviated_repr" /\ pc = "done"
        /\ Len(PyRepr(args.value)) <= args.max_length) =>
        ret = Return(PyRepr(args.value))

\* a list whose representation has exactly max_length characters and holds a
\* delimiter was returned whole
C5_Witness ==
    /\ fn = "abbreviated_repr" /\ pc = "done"
    /\ args.value.kind = "list"
    /\ Len(PyRepr(args.value)) = args.max_length
    /\ args.natural_breaks = <<",", " ">>
    /\ Contains(PyRepr(args.value), ",")
    /\ ret = Return(PyRepr(args.value))

\* the closing suffix of each class of value
SuffixOf(kind) ==
    CASE kind = "list" -> <<"]">>
      [] kind = "OrderedDict" -> <<"]", ")">>
      [] kind \in {"dict", "set"} -> <<"}">>
      [] OTHER -> <<>>

\* the position in natural_breaks of the first delimiter that occurs in w, or 0
SelectedDelimiter(w, breaks) ==
    IF \E n \in 1..Len(breaks) : Contains(w, breaks[n])
    THEN CHOOSE n \in 1..Len(breaks) :
            /\ Contains(w, breaks[n])
            /\ \A q \in 1..(n - 1) : ~Contains(w, breaks[q])
    ELSE 0

\* the zero-based position of the first c in w
FirstAt(w, c) ==
    CHOOSE p \in 0..(Len(w) - 1) :
        w[p + 1] = c /\ \A q \in 0..(p - 1) : w[q + 1] # c

\* the offset b of the selected delimiter: <<b>>, or <<>> when none is selected
SelectedOffset(r, m, breaks) ==
    LET w == SliceFrom(r, m \div 2)
        n == SelectedDelimiter(w, breaks)
    IN IF n = 0 THEN <<>> ELSE <<m \div 2 + FirstAt(w, breaks[n])>>

\* the cutoff c: b + 1 when a delimiter is selected and b < m, and m otherwise
Cutoff(r, m, breaks) ==
    LET b == SelectedOffset(r, m, breaks)
    IN IF b # <<>> /\ b[1] < m THEN b[1] + 1 ELSE m

\* the call cut the representation short
Truncating ==
    /\ fn = "abbreviated_repr"
    /\ Len(PyRepr(args.value)) > args.max_length

\* C6: a representation r longer than max_length comes back as r[:c+1],
\* then '...', then the closing suffix, c being b+1 when a delimiter was
\* selected at an offset b < max_length and max_length otherwise.
C6_TruncatedResult ==
    (Truncating /\ pc = "done") =>
        LET r == PyRepr(args.value)
            c == Cutoff(r, args.max_length, args.natural_breaks)
        IN ret = Return(SliceTo(r, c + 1) \o Ellipsis \o SuffixOf(args.value.kind))

\* a truncation whose cutoff the selected delimiter moved below max_length
C6_Witness ==
    /\ Truncating /\ pc = "done"
    /\ LET b == SelectedOffset(PyRepr(args.value), args.max_length,
                               args.natural_breaks)
       IN b # <<>> /\ b[1] + 1 < args.max_length
    /\ Len(ret.val) < args.max_length + 1 + Len(Ellipsis) + Len(end_char)

EndsWith(s, t) ==
    /\ Len(s) >= Len(t)
    /\ SubSeq(s, Len(s) - Len(t) + 1, Len(s)) = t

\* C7: in a truncated result, what follows '...' depends on the class of the
\* value alone: ']' for a list, '])' for an OrderedDict, '}' for a set or any
\* other dict, nothing for every other value.
C7_ClosingSuffixByKind ==
    (Truncating /\ pc = "done") =>
        /\ end_char = SuffixOf(args.value.kind)
        /\ EndsWith(ret.val, Ellipsis \o SuffixOf(args.value.kind))

\* a truncated OrderedDict, closed by '])' and not by the '}' of a dict
C7_Witness ==
    /\ Truncating /\ pc = "done"
    /\ args.value.kind = "OrderedDict"
    /\ EndsWith(ret.val, <<".", ".", ".", "]", ")">>)

\* C8: the docstring of indexOf: only identity is checked, so the element at
\* the returned index is the target itself.
C8_IndexOfIdentityOnly ==
    (fn = "indexOf" /\ pc = "done" /\ ret.st = "return") =>
        Is(args.objs[ret.val + 1], args.obj)

\* C9: the delimiter is chosen by its place in natural_breaks, not by its
\* place in the text: the first delimiter of natural_breaks that occurs in the
\* text from offset max_length/2 on is selected at its first occurrence there,
\* the loop stops at it, and when its offset is not below max_length the
\* cutoff stays max_length.
C9_OrderDependentBreak ==
    (Truncating /\ pc \in {"adjust", "end_char", "return", "done"}) =>
        LET r == PyRepr(args.value)
            w == SliceFrom(r, args.max_length \div 2)
            n == SelectedDelimiter(w, args.natural_breaks)
        IN /\ natural_break = SelectedOffset(r, args.max_length, args.natural_breaks)
           /\ k = IF n = 0 THEN Len(args.natural_breaks) + 1 ELSE n
           /\ (pc # "adjust" /\ (n = 0 \/ natural_break[1] >= args.max_length))
                 => max_length = args.max_length

\* ' ' was selected before ',' although ',' occurs earlier in the text and
\* at an offset that would have lowered the cutoff; the offset of ' ' is not
\* below max_length and the cutoff stayed
C9_Witness ==
    /\ Truncating /\ pc = "done"
    /\ args.natural_breaks = <<" ", ",">>
    /\ LET w == SliceFrom(PyRepr(args.value), args.max_length \div 2)
       IN /\ Contains(w, ",") /\ Contains(w, " ")
          /\ FirstAt(w, ",") < FirstAt(w, " ")
          /\ args.max_length \div 2 + FirstAt(w, ",") + 1 < args.max_length
          /\ natural_break = <<args.max_length \div 2 + FirstAt(w, " ")>>
    /\ natural_break[1] >= args.max_length
    /\ max_length = args.max_length

\* the longest closing suffix, '])'
LongestSuffix == <<"]", ")">>

\* C10: for max_length >= 0 the cutoff never rises above max_length, the
\* part of the representation kept has at most max_length + 1 characters and
\* the result at most max_length + 1 + 3 + 2.
C10_BoundedOvershoot ==
    (fn = "abbreviated_repr" /\ args.max_length >= 0) =>
        /\ max_length <= args.max_length
        /\ pc = "done" =>
              /\ Len(ret.val) <= args.max_length + 1 + Len(Ellipsis) + Len(LongestSuffix)
              /\ Truncating =>
                    Len(ret.val) - Len(Ellipsis) - Len(end_char) <= args.max_length + 1

\* a truncation that reaches the bound: max_length + 1 characters kept, then
\* '...' and '])', a delimiter having been selected beyond max_length
C10_Witness ==
    /\ Truncating /\ pc = "done"
    /\ args.max_length >= 0
    /\ natural_break # None
    /\ Len(ret.val) = args.max_length + 1 + Len(Ellipsis) + Len(LongestSuffix)

=============================================================================
